---------------------------- MODULE Spec2Model ----------------------------
(***************************************************************************)
(* Model of signature/v4-utils.go: isValidRegion, sumHMAC,                 *)
(* getURLEncodedName and getCanonicalHeaders.                              *)
(*                                                                         *)
(* A Go string is modelled as the sequence of its bytes (0..255), so that  *)
(* UTF-8 decoding, percent-encoding, header-key canonicalisation and       *)
(* string comparison are computed byte for byte as the code computes them. *)
(* Every invocation is a frame (the function, its arguments, its locals    *)
(* and its position); frames are stepped one loop iteration at a time, so  *)
(* that several invocations can be interleaved.                            *)
(***************************************************************************)
EXTENDS Integers, Sequences, FiniteSets, TLC

VARIABLES
    frame,          \* frame[p]: the invocation run by goroutine p
    requests,       \* the *http.Request objects, by reference
    reservedNames   \* the package variable reservedNames (its character class)

vars == <<frame, requests, reservedNames>>

-----------------------------------------------------------------------------
(* Bounds of the model                                                     *)

\* number of goroutines
NProcs == 2
\* a resource name is made of at most MaxChunks chunks (see Chunks)
MaxChunks == 3
\* length of the signed-header list
MaxSigned == 3
\* a requested region is made of at most MaxRegionParts parts
MaxRegionParts == 3

Procs == 1 .. NProcs

-----------------------------------------------------------------------------
(* Byte strings                                                            *)

\* "cn-bj-1"
REGION == <<99, 110, 45, 98, 106, 45, 49>>

\* "UNSIGNED-PAYLOAD"
UnsignedPayload == <<85, 78, 83, 73, 71, 78, 69, 68, 45, 80, 65, 89, 76, 79, 65, 68>>

\* the error values of getCanonicalHeaders
ErrMissingRequiredSignedHeader == "ErrMissingRequiredSignedHeader"
nil == "nil"

RECURSIVE Concat(_)
\* the concatenation of a sequence of byte strings
Concat(ss) == IF ss = <<>> THEN <<>> ELSE Head(ss) \o Concat(Tail(ss))

-----------------------------------------------------------------------------
(* isValidRegion                                                           *)

\* variant: the comparison ignores case
isValidRegionFold(reqRegion) ==
    LET up(b) == IF b >= 97 /\ b <= 122 THEN b - 32 ELSE b
        U(s)  == [i \in 1 .. Len(s) |-> up(s[i])]
    IN  IF reqRegion = <<>> THEN TRUE ELSE U(reqRegion) = U(REGION)

isValidRegion(reqRegion) ==
    IF reqRegion = <<>> THEN TRUE ELSE reqRegion = REGION

-----------------------------------------------------------------------------
(* sumHMAC: crypto/hmac over crypto/sha256.  The digest is kept symbolic:  *)
(* a term over the key and everything written to the hash.                 *)

hmacNew(key) == [key |-> key, written |-> <<>>]

hashWrite(hash, data) == [hash EXCEPT !.written = @ \o data]

hashSum(hash) == <<"HMAC-SHA256", hash.key, hash.written>>

sumHMAC(key, data) == hashSum(hashWrite(hmacNew(key), data))

-----------------------------------------------------------------------------
(* unicode/utf8, as used by getURLEncodedName                              *)

\* U+FFFD, utf8.RuneError
RuneError == 65533

InRange(b, lo, hi) == lo <= b /\ b <= hi

\* the decoding of the rune that starts at byte i of s, as `for range` over a
\* string does it: an invalid sequence decodes to RuneError with width 1
DecodeRune(s, i) ==
    LET n    == Len(s) - i + 1
        b0   == s[i]
        bad  == [r |-> RuneError, w |-> 1]
        size == IF b0 < 128 THEN 1
                ELSE IF InRange(b0, 194, 223) THEN 2
                ELSE IF InRange(b0, 224, 239) THEN 3
                ELSE IF InRange(b0, 240, 244) THEN 4
                ELSE 0
        lo   == IF b0 = 224 THEN 160 ELSE IF b0 = 240 THEN 144 ELSE 128
        hi   == IF b0 = 237 THEN 159 ELSE IF b0 = 244 THEN 143 ELSE 191
    IN  IF size = 0 THEN bad
        ELSE IF size = 1 THEN [r |-> b0, w |-> 1]
        ELSE IF n < size THEN bad
        ELSE IF ~InRange(s[i + 1], lo, hi) THEN bad
        ELSE IF size = 2
             THEN [r |-> (b0 % 32) * 64 + (s[i + 1] % 64), w |-> 2]
        ELSE IF ~InRange(s[i + 2], 128, 191) THEN bad
        ELSE IF size = 3
             THEN [r |-> (b0 % 16) * 4096 + (s[i + 1] % 64) * 64 + (s[i + 2] % 64),
                   w |-> 3]
        ELSE IF ~InRange(s[i + 3], 128, 191) THEN bad
        ELSE [r |-> (b0 % 8) * 262144 + (s[i + 1] % 64) * 4096
                    + (s[i + 2] % 64) * 64 + (s[i + 3] % 64),
              w |-> 4]

\* utf8.RuneLen: the number of bytes of the encoding of r, -1 if r is not a
\* value that can be encoded
RuneLen(r) ==
    IF r < 0 THEN -1
    ELSE IF r <= 127 THEN 1
    ELSE IF r <= 2047 THEN 2
    ELSE IF InRange(r, 55296, 57343) THEN -1
    ELSE IF r <= 65535 THEN 3
    ELSE IF r <= 1114111 THEN 4
    ELSE -1

\* utf8.EncodeRune
EncodeRune(r) ==
    IF r < 0 \/ r > 1114111 \/ InRange(r, 55296, 57343)
        THEN <<239, 191, 189>>
    ELSE IF r <= 127 THEN <<r>>
    ELSE IF r <= 2047 THEN <<192 + (r \div 64), 128 + (r % 64)>>
    ELSE IF r <= 65535
        THEN <<224 + (r \div 4096), 128 + ((r \div 64) % 64), 128 + (r % 64)>>
    ELSE <<240 + (r \div 262144), 128 + ((r \div 4096) % 64),
           128 + ((r \div 64) % 64), 128 + (r % 64)>>

-----------------------------------------------------------------------------
(* getURLEncodedName                                                       *)

\* the character class of the pattern "^[a-zA-Z0-9-_.~/]+$"
ReservedClass ==
    (97 .. 122) \cup (65 .. 90) \cup (48 .. 57) \cup {45, 95, 46, 126, 47}

RECURSIVE AllRunesIn(_, _, _)
AllRunesIn(class, s, i) ==
    IF i > Len(s) THEN TRUE
    ELSE LET d == DecodeRune(s, i)
         IN  d.r \in class /\ AllRunesIn(class, s, i + d.w)

\* reservedNames.MatchString(name): one or more runes of the class, anchored
\* at both ends of the text
MatchString(class, name) == Len(name) >= 1 /\ AllRunesIn(class, name, 1)

\* hex.EncodeToString([]byte{r}): two lowercase hexadecimal digits
hexEncodeToString(r) ==
    LET digit(n) == IF n < 10 THEN 48 + n ELSE 97 + (n - 10)
    IN  <<digit(r \div 16), digit(r % 16)>>

\* strings.ToUpper, on the ASCII strings it is given here
ToUpper(s) ==
    [i \in 1 .. Len(s) |-> IF InRange(s[i], 97, 122) THEN s[i] - 32 ELSE s[i]]

\* the inner loop of lines 85-88: "%" and two uppercase digits for each byte
RECURSIVE escapeBytes(_)
escapeBytes(u) ==
    IF u = <<>> THEN <<>>
    ELSE <<37>> \o ToUpper(hexEncodeToString(Head(u))) \o escapeBytes(Tail(u))

\* the first test of the loop body (line 70)
isAlnum(s) == InRange(s, 65, 90) \/ InRange(s, 97, 122) \/ InRange(s, 48, 57)

\* variant: the slash is escaped like any other reserved character
isMarkNoSlash(s) == s \in {45, 95, 46, 126}

\* the cases of the switch (line 75): - _ . ~ /
isMark(s) == s \in {45, 95, 46, 126, 47}

\* one iteration of the loop of lines 69-90 on rune s: the function returns
\* name (abort), or goes on with a longer encodedName
encodeRuneStep(encodedName, s) ==
    IF isAlnum(s) THEN [abort |-> FALSE, encodedName |-> encodedName \o EncodeRune(s)]
    ELSE IF isMark(s) THEN [abort |-> FALSE, encodedName |-> encodedName \o EncodeRune(s)]
    ELSE LET len == RuneLen(s)
         IN  IF len < 0 THEN [abort |-> TRUE, encodedName |-> encodedName]
             ELSE [abort |-> FALSE,
                   encodedName |-> encodedName \o escapeBytes(EncodeRune(s))]

RECURSIVE rangeName(_, _, _)
\* the loop of lines 69-91 from byte offset i on
rangeName(name, i, encodedName) ==
    IF i > Len(name) THEN encodedName
    ELSE LET d == DecodeRune(name, i)
             n == encodeRuneStep(encodedName, d.r)
         IN  IF n.abort THEN name ELSE rangeName(name, i + d.w, n.encodedName)

\* the function as a whole, with the pattern's class as it is when called
getURLEncodedName(class, name) ==
    IF MatchString(class, name) THEN name ELSE rangeName(name, 1, <<>>)

-----------------------------------------------------------------------------
(* net/http, as used by getCanonicalHeaders                                *)

\* the header names and values the model uses
host == <<104, 111, 115, 116>>
expect == <<101, 120, 112, 101, 99, 116>>
\* "100-continue"
continue100 == <<49, 48, 48, 45, 99, 111, 110, 116, 105, 110, 117, 101>>

\* the bytes of an HTTP token: letters, digits and ! # $ % & ' * + - . ^ _ ` | ~
validHeaderFieldByte(c) ==
    \/ InRange(c, 48, 57) \/ InRange(c, 65, 90) \/ InRange(c, 97, 122)
    \/ c \in {33, 35, 36, 37, 38, 39, 42, 43, 45, 46, 94, 95, 96, 124, 126}

\* http.CanonicalHeaderKey: the first letter and every letter after a hyphen
\* in upper case, the others in lower case; a key that is no token is
\* returned as it is
CanonicalHeaderKey(s) ==
    IF \E i \in 1 .. Len(s) : ~validHeaderFieldByte(s[i]) THEN s
    ELSE [i \in 1 .. Len(s) |->
            LET upper == (i = 1) \/ (s[i - 1] = 45)
            IN  IF upper /\ InRange(s[i], 97, 122) THEN s[i] - 32
                ELSE IF ~upper /\ InRange(s[i], 65, 90) THEN s[i] + 32
                ELSE s[i]]

-----------------------------------------------------------------------------
(* getCanonicalHeaders                                                     *)

\* values, ok := req.Header[http.CanonicalHeaderKey(header)]   (line 105)
lookupHeader(header, req) ==
    LET k == CanonicalHeaderKey(header)
    IN  IF k \in DOMAIN req.Header
            THEN [values |-> req.Header[k], ok |-> TRUE]
            ELSE [values |-> <<>>, ok |-> FALSE]

\* variant: "expect" is looked up like any other header
expectFromRequest(header, v) == v

\* lines 122-125
expectWorkaround(header, v) ==
    IF header = expect THEN [values |-> <<continue100>>, ok |-> TRUE] ELSE v

\* variant: "host" is looked up like any other header
hostFromHeader(header, req, v) == v

\* lines 128-131
hostWorkaround(header, req, v) ==
    IF header = host THEN [values |-> <<req.Host>>, ok |-> TRUE] ELSE v

RECURSIVE joinFrom(_, _)
\* the loop of lines 136-141 from index idx (0-based) on
joinFrom(values, idx) ==
    IF idx >= Len(values) THEN <<>>
    ELSE (IF idx > 0 THEN <<44>> ELSE <<>>) \o values[idx + 1]
         \o joinFrom(values, idx + 1)

RECURSIVE linesFrom(_, _, _)
\* variant: one line for each value of the header
linesFrom(header, values, idx) ==
    IF idx >= Len(values) THEN <<>>
    ELSE header \o <<58>> \o values[idx + 1] \o <<10>>
         \o linesFrom(header, values, idx + 1)

appendHeaderPerValue(canonicalHeaders, header, values) ==
    canonicalHeaders \o linesFrom(header, values, 0)

\* lines 135-142
appendHeader(canonicalHeaders, header, values) ==
    canonicalHeaders \o header \o <<58>> \o joinFrom(values, 0) \o <<10>>

\* variant: the error comes with what was built so far
missingKeepsPartial(canonicalHeaders) ==
    [ret |-> canonicalHeaders, err |-> ErrMissingRequiredSignedHeader]

\* line 133
missingHeader(canonicalHeaders) ==
    [ret |-> <<>>, err |-> ErrMissingRequiredSignedHeader]

\* one iteration of the loop of lines 104-143: the function returns (abort),
\* or goes on with a longer canonicalHeaders
canonicalHeaderStep(canonicalHeaders, header, req) ==
    LET v == hostWorkaround(header, req,
                 expectWorkaround(header, lookupHeader(header, req)))
    IN  IF ~v.ok
            THEN [abort |-> TRUE, canonicalHeaders |-> canonicalHeaders,
                  out |-> missingHeader(canonicalHeaders)]
            ELSE [abort |-> FALSE,
                  canonicalHeaders |-> appendHeader(canonicalHeaders, header, v.values),
                  out |-> [ret |-> <<>>, err |-> nil]]

RECURSIVE rangeSignedHeaders(_, _, _, _)
\* the loop of lines 104-144 from index idx (0-based) on
rangeSignedHeaders(signedHeaders, idx, req, canonicalHeaders) ==
    IF idx >= Len(signedHeaders) THEN [ret |-> canonicalHeaders, err |-> nil]
    ELSE LET n == canonicalHeaderStep(canonicalHeaders, signedHeaders[idx + 1], req)
         IN  IF n.abort THEN n.out
             ELSE rangeSignedHeaders(signedHeaders, idx + 1, req, n.canonicalHeaders)

\* the function as a whole
getCanonicalHeaders(signedHeaders, req) ==
    rangeSignedHeaders(signedHeaders, 0, req, <<>>)

-----------------------------------------------------------------------------
(* Invocations                                                             *)

\* a frame: the function, its arguments, its locals, its position and what it
\* returned
NoFrame ==
    [fn |-> "none", pc |-> "done",
     reqRegion |-> <<>>,
     key |-> <<>>, data |-> <<>>, hash |-> hmacNew(<<>>),
     name |-> <<>>, off |-> 1, encodedName |-> <<>>,
     signedHeaders |-> <<>>, req |-> 1, idx |-> 0, canonicalHeaders |-> <<>>,
     ret |-> <<>>, err |-> nil]

CallIsValidRegion(reqRegion) ==
    [NoFrame EXCEPT !.fn = "isValidRegion", !.pc = "call", !.reqRegion = reqRegion]

CallSumHMAC(key, data) ==
    [NoFrame EXCEPT !.fn = "sumHMAC", !.pc = "new", !.key = key, !.data = data]

CallGetURLEncodedName(name) ==
    [NoFrame EXCEPT !.fn = "getURLEncodedName", !.pc = "match", !.name = name]

CallGetCanonicalHeaders(signedHeaders, req) ==
    [NoFrame EXCEPT !.fn = "getCanonicalHeaders", !.pc = "range",
                    !.signedHeaders = signedHeaders, !.req = req]

Return(f, ret, err) == [f EXCEPT !.pc = "done", !.ret = ret, !.err = err]

\* what the functions do to the state they share: nothing
SharedUnchanged == UNCHANGED <<requests, reservedNames>>

\* lines 39-44
IsValidRegion(p) ==
    /\ frame[p].fn = "isValidRegion" /\ frame[p].pc = "call"
    /\ frame' = [frame EXCEPT ![p] = Return(@, isValidRegion(@.reqRegion), nil)]
    /\ SharedUnchanged

\* line 48
SumHMACNew(p) ==
    /\ frame[p].fn = "sumHMAC" /\ frame[p].pc = "new"
    /\ LET f == frame[p]
       IN  frame' = [frame EXCEPT ![p] =
                        [f EXCEPT !.hash = hmacNew(f.key), !.pc = "write"]]
    /\ SharedUnchanged

\* line 49
SumHMACWrite(p) ==
    /\ frame[p].fn = "sumHMAC" /\ frame[p].pc = "write"
    /\ LET f == frame[p]
       IN  frame' = [frame EXCEPT ![p] =
                        [f EXCEPT !.hash = hashWrite(f.hash, f.data), !.pc = "sum"]]
    /\ SharedUnchanged

\* line 50
SumHMACSum(p) ==
    /\ frame[p].fn = "sumHMAC" /\ frame[p].pc = "sum"
    /\ frame' = [frame EXCEPT ![p] = Return(@, hashSum(@.hash), nil)]
    /\ SharedUnchanged

\* lines 65-68
URLEncodeMatch(p) ==
    /\ frame[p].fn = "getURLEncodedName" /\ frame[p].pc = "match"
    /\ frame' = [frame EXCEPT ![p] =
                    IF MatchString(reservedNames, @.name)
                        THEN Return(@, @.name, nil)
                        ELSE [@ EXCEPT !.pc = "range", !.off = 1, !.encodedName = <<>>]]
    /\ SharedUnchanged

\* lines 69-90, one rune
URLEncodeRune(p) ==
    /\ frame[p].fn = "getURLEncodedName" /\ frame[p].pc = "range"
    /\ frame[p].off <= Len(frame[p].name)
    /\ LET f == frame[p]
           d == DecodeRune(f.name, f.off)
           n == encodeRuneStep(f.encodedName, d.r)
       IN  frame' = [frame EXCEPT ![p] =
                        IF n.abort THEN Return(f, f.name, nil)
                        ELSE [f EXCEPT !.off = f.off + d.w,
                                       !.encodedName = n.encodedName]]
    /\ SharedUnchanged

\* line 91
URLEncodeReturn(p) ==
    /\ frame[p].fn = "getURLEncodedName" /\ frame[p].pc = "range"
    /\ frame[p].off > Len(frame[p].name)
    /\ frame' = [frame EXCEPT ![p] = Return(@, @.encodedName, nil)]
    /\ SharedUnchanged

\* variant: the Host field is stored into the request's header mapping
CanonicalHeadersRangeStoringHost(p) ==
    /\ frame[p].fn = "getCanonicalHeaders" /\ frame[p].pc = "range"
    /\ frame[p].idx < Len(frame[p].signedHeaders)
    /\ LET f == frame[p]
           n == canonicalHeaderStep(f.canonicalHeaders, f.signedHeaders[f.idx + 1],
                                    requests[f.req])
           h == requests[f.req].Header
       IN  /\ frame' = [frame EXCEPT ![p] =
                            IF n.abort THEN Return(f, n.out.ret, n.out.err)
                            ELSE [f EXCEPT !.idx = f.idx + 1,
                                           !.canonicalHeaders = n.canonicalHeaders]]
           /\ requests' = [requests EXCEPT ![f.req].Header =
                               [k \in DOMAIN h \cup {<<72, 111, 115, 116>>} |->
                                   IF k = <<72, 111, 115, 116>>
                                       THEN <<requests[f.req].Host>> ELSE h[k]]]
    /\ UNCHANGED reservedNames

\* lines 104-143, one signed header
CanonicalHeadersRange(p) ==
    /\ frame[p].fn = "getCanonicalHeaders" /\ frame[p].pc = "range"
    /\ frame[p].idx < Len(frame[p].signedHeaders)
    /\ LET f == frame[p]
           n == canonicalHeaderStep(f.canonicalHeaders, f.signedHeaders[f.idx + 1],
                                    requests[f.req])
       IN  frame' = [frame EXCEPT ![p] =
                        IF n.abort THEN Return(f, n.out.ret, n.out.err)
                        ELSE [f EXCEPT !.idx = f.idx + 1,
                                       !.canonicalHeaders = n.canonicalHeaders]]
    /\ SharedUnchanged

\* line 144
CanonicalHeadersReturn(p) ==
    /\ frame[p].fn = "getCanonicalHeaders" /\ frame[p].pc = "range"
    /\ frame[p].idx >= Len(frame[p].signedHeaders)
    /\ frame' = [frame EXCEPT ![p] = Return(@, @.canonicalHeaders, nil)]
    /\ SharedUnchanged

-----------------------------------------------------------------------------
(* Inputs                                                                  *)

RECURSIVE ConcatsUpTo(_, _)
\* the concatenations of at most n members of parts
ConcatsUpTo(parts, n) ==
    IF n = 0 THEN {<<>>}
    ELSE LET shorter == ConcatsUpTo(parts, n - 1)
         IN  shorter \cup {s \o c : s \in shorter, c \in parts}

\* "cn-bj-1", "cn-bj", "-1", "CN-BJ-1", " ", "wrong-region"
RegionParts ==
    { REGION, <<99, 110, 45, 98, 106>>, <<45, 49>>, <<67, 78, 45, 66, 74, 45, 49>>,
      <<32>>, <<119, 114, 111, 110, 103, 45, 114, 101, 103, 105, 111, 110>> }

Regions == ConcatsUpTo(RegionParts, MaxRegionParts)

\* the pieces resource names are made of: "aZ9", "-_.~", "/", " ",
\* U+00E9, U+20AC, U+1F600, U+FFFD, and the malformed pieces 0xFF, a lead
\* byte alone, a continuation byte alone, an encoded surrogate, an overlong
\* encoding
Chunks ==
    { <<97, 90, 57>>, <<45, 95, 46, 126>>, <<47>>, <<32>>,
      <<195, 169>>, <<226, 130, 172>>, <<240, 159, 152, 128>>, <<239, 191, 189>>,
      <<255>>, <<195>>, <<169>>, <<237, 160, 128>>, <<192, 128>> }

Names == ConcatsUpTo(Chunks, MaxChunks)

\* "x-a", "x-b" and their keys "X-A", "X-B", "Expect", "Host"
xA == <<120, 45, 97>>
xB == <<120, 45, 98>>
keyXA == <<88, 45, 65>>
keyXB == <<88, 45, 66>>
keyExpect == <<69, 120, 112, 101, 99, 116>>
keyHost == <<72, 111, 115, 116>>

SignedNames == {host, expect, xA, xB}

RECURSIVE ListsUpTo(_, _)
\* the lists of at most n members of S
ListsUpTo(S, n) ==
    IF n = 0 THEN {<<>>}
    ELSE LET shorter == ListsUpTo(S, n - 1)
         IN  shorter \cup {Append(l, x) : l \in shorter, x \in S}

SignedHeaderLists == ListsUpTo(SignedNames, MaxSigned)

\* what a request may store under each key: "v", "w", " v " and
\* "100-continue", in lists of zero, one or two values
Stored(k) ==
    IF k = keyXA THEN {<<>>, <<(<<118>>)>>, <<(<<32, 118, 32>>)>>, <<(<<118>>), (<<119>>)>>}
    ELSE IF k = keyXB THEN {<<(<<119>>)>>}
    ELSE IF k = keyExpect THEN {<<continue100>>, <<(<<118>>)>>}
    ELSE {<<(<<119>>)>>}

HeaderKeys == {keyXA, keyXB, keyExpect, keyHost}

\* the header maps: any subset of the keys, each with one of its value lists
Headers ==
    UNION { { h \in [D -> UNION {Stored(k) : k \in HeaderKeys}] :
                \A k \in D : h[k] \in Stored(k) } : D \in SUBSET HeaderKeys }

\* "h", "example.com"
Hosts == { <<104>>, <<101, 120, 97, 109, 112, 108, 101, 46, 99, 111, 109>> }

Requests == { [Header |-> h, Host |-> x] : h \in Headers, x \in Hosts }

NoRequest == [Header |-> <<>>, Host |-> <<>>]

-----------------------------------------------------------------------------
(* Specifications                                                          *)

\* goroutine 1 runs the invocation f, on request r if it takes one
OneCall(f, r) ==
    /\ frame = [p \in Procs |-> IF p = 1 THEN f ELSE NoFrame]
    /\ requests = [p \in Procs |-> IF p = 1 THEN r ELSE NoRequest]
    /\ reservedNames = ReservedClass

InitRegion == \E r \in Regions : OneCall(CallIsValidRegion(r), NoRequest)

NextRegion == \E p \in Procs : IsValidRegion(p)

SpecRegion == InitRegion /\ [][NextRegion]_vars

InitEncode == \E n \in Names : OneCall(CallGetURLEncodedName(n), NoRequest)

NextEncode ==
    \E p \in Procs : URLEncodeMatch(p) \/ URLEncodeRune(p) \/ URLEncodeReturn(p)

SpecEncode == InitEncode /\ [][NextEncode]_vars

InitHeaders ==
    \E l \in SignedHeaderLists, r \in Requests :
        OneCall(CallGetCanonicalHeaders(l, 1), r)

NextHeaders ==
    \E p \in Procs : CanonicalHeadersRange(p) \/ CanonicalHeadersReturn(p)

SpecHeaders == InitHeaders /\ [][NextHeaders]_vars

\* the requests and the invocations of the concurrent runs
ConcRequests ==
    { [Header |-> (keyXA :> <<(<<118>>), (<<119>>)>>), Host |-> <<104>>],
      [Header |-> (keyXA :> <<(<<118>>)>>) @@ (keyXB :> <<(<<119>>)>>),
       Host |-> <<101, 120, 97, 109, 112, 108, 101, 46, 99, 111, 109>>] }

ConcCalls(p) ==
    { CallIsValidRegion(REGION),
      CallSumHMAC(<<107>>, <<100, 97>>),
      CallGetURLEncodedName(<<97, 32>>),
      CallGetURLEncodedName(<<47, 195, 169>>) }
    \cup { CallGetCanonicalHeaders(l, r) :
             l \in {<<host, xA>>, <<expect, xB>>}, r \in {1, p} }

InitConcurrent ==
    /\ frame \in { f \in [Procs -> UNION {ConcCalls(p) : p \in Procs}] :
                     \A p \in Procs : f[p] \in ConcCalls(p) }
    /\ requests \in [Procs -> ConcRequests]
    /\ reservedNames = ReservedClass

NextConcurrent ==
    \E p \in Procs :
        \/ IsValidRegion(p)
        \/ SumHMACNew(p) \/ SumHMACWrite(p) \/ SumHMACSum(p)
        \/ URLEncodeMatch(p) \/ URLEncodeRune(p) \/ URLEncodeReturn(p)
        \/ CanonicalHeadersRange(p) \/ CanonicalHeadersReturn(p)

SpecConcurrent == InitConcurrent /\ [][NextConcurrent]_vars

-----------------------------------------------------------------------------
(* Vocabulary of the properties                                            *)

Done(p, fn) == frame[p].fn = fn /\ frame[p].pc = "done"

\* a and b are the same string, byte for byte
SameBytes(a, b) == Len(a) = Len(b) /\ \A i \in 1 .. Len(a) : a[i] = b[i]

\* ASCII case folding, for the case-insensitive match of header names
Lower(s) ==
    [i \in 1 .. Len(s) |-> IF InRange(s[i], 65, 90) THEN s[i] + 32 ELSE s[i]]

\* the well-formed UTF-8 byte sequences (The Unicode Standard, table 3-7):
\* each row gives the range of every byte of one code point
WellFormedRows ==
    { <<(<<0, 127>>)>>,
      <<(<<194, 223>>), (<<128, 191>>)>>,
      <<(<<224, 224>>), (<<160, 191>>), (<<128, 191>>)>>,
      <<(<<225, 236>>), (<<128, 191>>), (<<128, 191>>)>>,
      <<(<<237, 237>>), (<<128, 159>>), (<<128, 191>>)>>,
      <<(<<238, 239>>), (<<128, 191>>), (<<128, 191>>)>>,
      <<(<<240, 240>>), (<<144, 191>>), (<<128, 191>>), (<<128, 191>>)>>,
      <<(<<241, 243>>), (<<128, 191>>), (<<128, 191>>), (<<128, 191>>)>>,
      <<(<<244, 244>>), (<<128, 143>>), (<<128, 191>>), (<<128, 191>>)>> }

\* a code point of row starts at byte i of s
RowAt(s, i, row) ==
    /\ i + Len(row) - 1 <= Len(s)
    /\ \A j \in 1 .. Len(row) : InRange(s[i + j - 1], row[j][1], row[j][2])

RECURSIVE CodePointsFrom(_, _)
\* the code points of s from byte i on, each as its bytes; an empty one in
\* place of the rest when no code point starts there
CodePointsFrom(s, i) ==
    IF i > Len(s) THEN <<>>
    ELSE IF \E row \in WellFormedRows : RowAt(s, i, row)
         THEN LET row == CHOOSE r \in WellFormedRows : RowAt(s, i, r)
              IN  <<SubSeq(s, i, i + Len(row) - 1)>> \o CodePointsFrom(s, i + Len(row))
         ELSE <<(<<>>)>>

CodePoints(s) == CodePointsFrom(s, 1)

WellFormed(s) == \A k \in 1 .. Len(CodePoints(s)) : CodePoints(s)[k] # <<>>

\* ASCII letters, ASCII digits and - _ . ~ /
Unreserved ==
    (65 .. 90) \cup (97 .. 122) \cup (48 .. 57) \cup {45, 95, 46, 126, 47}

\* "0123456789ABCDEF"
HexDigits == <<48, 49, 50, 51, 52, 53, 54, 55, 56, 57, 65, 66, 67, 68, 69, 70>>

\* "%" and the two uppercase hexadecimal digits of byte b
Escaped(b) == <<37, HexDigits[(b \div 16) + 1], HexDigits[(b % 16) + 1]>>

\* what one code point, given as its bytes, is encoded to
EncodedCodePoint(c) ==
    IF Len(c) = 1 /\ c[1] \in Unreserved THEN c
    ELSE Concat([j \in 1 .. Len(c) |-> Escaped(c[j])])

ExpectedEncoding(name) ==
    LET cps == CodePoints(name)
    IN  Concat([k \in 1 .. Len(cps) |-> EncodedCodePoint(cps[k])])

\* the request has an entry for the header name, in whatever case
HasHeader(req, header) ==
    \E k \in DOMAIN req.Header : SameBytes(Lower(k), Lower(header))

\* the values the request stores for the header name, in stored order
StoredValues(req, header) ==
    IF HasHeader(req, header)
        THEN req.Header[CHOOSE k \in DOMAIN req.Header :
                            SameBytes(Lower(k), Lower(header))]
        ELSE <<>>

\* the values a signed header stands for: "expect" for 100-continue, "host"
\* for the request's Host field, any other for what the request stores
HeaderValues(req, header) ==
    IF header = expect THEN <<continue100>>
    ELSE IF header = host THEN <<req.Host>>
    ELSE StoredValues(req, header)

RECURSIVE CommaJoined(_)
CommaJoined(values) ==
    IF values = <<>> THEN <<>>
    ELSE IF Len(values) = 1 THEN values[1]
    ELSE values[1] \o <<44>> \o CommaJoined(Tail(values))

\* name ":" values "\n"
Line(header, values) == header \o <<58>> \o CommaJoined(values) \o <<10>>

ExpectedCanonicalHeaders(signedHeaders, req) ==
    Concat([i \in 1 .. Len(signedHeaders) |->
               Line(signedHeaders[i], HeaderValues(req, signedHeaders[i]))])

Count(s, b) == Cardinality({i \in 1 .. Len(s) : s[i] = b})

\* a signed header that needs an entry in the request
Required(header) == header # expect /\ header # host

\* space and horizontal tab
IsSpace(b) == b \in {32, 9}

RECURSIVE Trim(_)
\* s without its leading and trailing whitespace
Trim(s) ==
    IF s = <<>> THEN s
    ELSE IF IsSpace(s[1]) THEN Trim(Tail(s))
    ELSE IF IsSpace(s[Len(s)]) THEN Trim(SubSeq(s, 1, Len(s) - 1))
    ELSE s

\* the signed header the invocation of p is about to process, if any
AtHeader(p, header) ==
    /\ frame[p].fn = "getCanonicalHeaders" /\ frame[p].pc = "range"
    /\ frame[p].idx < Len(frame[p].signedHeaders)
    /\ frame[p].signedHeaders[frame[p].idx + 1] = header

\* the invocation of p goes on to the next signed header after adding line
Emits(p, line) ==
    /\ frame'[p].pc = "range"
    /\ frame'[p].idx = frame[p].idx + 1
    /\ frame'[p].canonicalHeaders = frame[p].canonicalHeaders \o line

\* the invocation of p has just processed header and goes on
Processed(p, header) ==
    /\ frame[p].fn = "getCanonicalHeaders" /\ frame[p].pc = "range"
    /\ frame[p].idx >= 1
    /\ frame[p].signedHeaders[frame[p].idx] = header

-----------------------------------------------------------------------------
(* Properties                                                              *)

\* C1: when getCanonicalHeaders succeeds, the string it returns is the
\* concatenation, in the order of the signed-header list, of one line
\* name ":" values-joined-by-"," "\n" per entry: as many newlines as
\* entries, and nothing after the last newline.
CanonicalStringIsOrderedLines ==
    \A p \in Procs :
        (Done(p, "getCanonicalHeaders") /\ frame[p].err = nil) =>
            LET f == frame[p]
            IN  /\ f.ret = ExpectedCanonicalHeaders(f.signedHeaders, requests[f.req])
                /\ Count(f.ret, 10) = Len(f.signedHeaders)
                /\ f.ret # <<>> => f.ret[Len(f.ret)] = 10

\* a successful call whose list has several entries, one of them a header
\* stored with two values
WitnessOrderedLines ==
    \E p \in Procs :
        /\ Done(p, "getCanonicalHeaders") /\ frame[p].err = nil
        /\ Len(frame[p].signedHeaders) >= 2
        /\ frame[p].signedHeaders[1] = host
        /\ \E i \in 1 .. Len(frame[p].signedHeaders) :
              /\ frame[p].signedHeaders[i] = xA
              /\ Len(StoredValues(requests[frame[p].req], xA)) = 2

\* C2: getCanonicalHeaders returns ErrMissingRequiredSignedHeader exactly
\* when some signed header other than "expect" and "host" has no entry in
\* the request's header mapping, and then it returns the empty string.
MissingHeaderIsTheOnlyError ==
    \A p \in Procs :
        Done(p, "getCanonicalHeaders") =>
            LET f == frame[p]
                missing == \E i \in 1 .. Len(f.signedHeaders) :
                              /\ Required(f.signedHeaders[i])
                              /\ ~HasHeader(requests[f.req], f.signedHeaders[i])
            IN  /\ f.err \in {nil, ErrMissingRequiredSignedHeader}
                /\ (f.err = ErrMissingRequiredSignedHeader) <=> missing
                /\ f.err = ErrMissingRequiredSignedHeader => f.ret = <<>>

\* a call that failed after it had processed earlier signed headers
WitnessMissingAfterProgress ==
    \E p \in Procs :
        /\ Done(p, "getCanonicalHeaders")
        /\ frame[p].err = ErrMissingRequiredSignedHeader
        /\ frame[p].idx >= 1 /\ frame[p].canonicalHeaders # <<>>

\* C3: processing the signed header "expect" never fails and appends exactly
\* the line "expect:100-continue\n", whatever the request stores under
\* Expect.
ExpectIsAlwaysContinue ==
    [][\A p \in Procs :
          (AtHeader(p, expect) /\ frame'[p] # frame[p]) =>
              Emits(p, expect \o <<58>> \o continue100 \o <<10>>)]_vars

\* "expect" has been processed on a request that stores another value under
\* Expect
WitnessExpectOverridden ==
    \E p \in Procs :
        /\ Processed(p, expect)
        /\ keyExpect \in DOMAIN requests[frame[p].req].Header
        /\ requests[frame[p].req].Header[keyExpect] # <<continue100>>

\* C4: processing the signed header "host" never fails and appends exactly
\* the line "host:" + the request's Host field + "\n", whatever the header
\* mapping stores under Host.
HostIsTheHostField ==
    [][\A p \in Procs :
          (AtHeader(p, host) /\ frame'[p] # frame[p]) =>
              Emits(p, host \o <<58>> \o requests[frame[p].req].Host \o <<10>>)]_vars

\* "host" has been processed on a request whose header mapping has a Host
\* entry with another value
WitnessHostOverridden ==
    \E p \in Procs :
        /\ Processed(p, host)
        /\ keyHost \in DOMAIN requests[frame[p].req].Header
        /\ requests[frame[p].req].Header[keyHost] # <<requests[frame[p].req].Host>>

\* C5: on a well-formed UTF-8 name, getURLEncodedName returns the
\* concatenation over the code points, in order, of the code point itself
\* when it is an ASCII letter, an ASCII digit or one of - _ . ~ /, and of
\* "%XX" (uppercase) for each byte of its encoding otherwise; a name made of
\* unreserved characters only is returned unchanged.
EncodingOfWellFormedNames ==
    \A p \in Procs :
        (Done(p, "getURLEncodedName") /\ WellFormed(frame[p].name)) =>
            /\ frame[p].ret = ExpectedEncoding(frame[p].name)
            /\ (\A i \in 1 .. Len(frame[p].name) : frame[p].name[i] \in Unreserved)
                   => frame[p].ret = frame[p].name

\* a well-formed name with a slash and a code point of several bytes has been
\* encoded
WitnessMultiByteEncoded ==
    \E p \in Procs :
        /\ Done(p, "getURLEncodedName") /\ WellFormed(frame[p].name)
        /\ \E i \in 1 .. Len(frame[p].name) : frame[p].name[i] = 47
        /\ \E k \in 1 .. Len(CodePoints(frame[p].name)) :
              Len(CodePoints(frame[p].name)[k]) >= 3
        /\ Len(frame[p].ret) > Len(frame[p].name)

\* C6: on a name with a malformed code point, getURLEncodedName returns the
\* name as it was given.
MalformedNameIsReturnedUnchanged ==
    \A p \in Procs :
        (Done(p, "getURLEncodedName") /\ ~WellFormed(frame[p].name)) =>
            frame[p].ret = frame[p].name

\* C7: isValidRegion returns true exactly for the empty string and for the
\* configured region, byte for byte, and has no error outcome.
RegionIsEmptyOrConfigured ==
    \A p \in Procs :
        Done(p, "isValidRegion") =>
            /\ frame[p].ret \in BOOLEAN
            /\ frame[p].ret <=> (frame[p].reqRegion = <<>>
                                    \/ SameBytes(frame[p].reqRegion, REGION))
            /\ frame[p].err = nil

\* the region in upper case, and the region after a space, were refused
WitnessRegionVariantsRefused ==
    \E p \in Procs :
        /\ Done(p, "isValidRegion")
        /\ frame[p].reqRegion # REGION
        /\ Lower(frame[p].reqRegion) = REGION
        /\ frame[p].ret = FALSE

\* what the invocation f returns when it runs alone on what is shared now
Alone(f) ==
    IF f.fn = "isValidRegion" THEN [ret |-> isValidRegion(f.reqRegion), err |-> nil]
    ELSE IF f.fn = "sumHMAC" THEN [ret |-> sumHMAC(f.key, f.data), err |-> nil]
    ELSE IF f.fn = "getURLEncodedName"
        THEN [ret |-> getURLEncodedName(reservedNames, f.name), err |-> nil]
    ELSE getCanonicalHeaders(f.signedHeaders, requests[f.req])

\* C8: however the invocations are interleaved, no step writes the requests
\* or the reserved-name pattern, and every invocation returns what it returns
\* when run alone.
ConcurrentCallsAreIndependent ==
    /\ [][requests' = requests /\ reservedNames' = reservedNames]_vars
    /\ [](\A p \in Procs :
            frame[p].pc = "done" =>
                /\ frame[p].ret = Alone(frame[p]).ret
                /\ frame[p].err = Alone(frame[p]).err)

\* one call of getCanonicalHeaders has returned while another, on the same
\* request, is in the middle of its loop
WitnessOverlappingCalls ==
    \E p, q \in Procs :
        /\ p # q
        /\ Done(p, "getCanonicalHeaders")
        /\ frame[q].fn = "getCanonicalHeaders" /\ frame[q].pc = "range"
        /\ frame[q].idx >= 1
        /\ frame[q].req = frame[p].req

\* C9: a signed header other than "expect" and "host" for which the request
\* holds no values, its entry absent or empty, makes getCanonicalHeaders fail
\* with ErrMissingRequiredSignedHeader.
NoValuesIsMissing ==
    \A p \in Procs :
        Done(p, "getCanonicalHeaders") =>
            LET f == frame[p]
            IN  (\E i \in 1 .. Len(f.signedHeaders) :
                    /\ Required(f.signedHeaders[i])
                    /\ StoredValues(requests[f.req], f.signedHeaders[i]) = <<>>)
                => f.err = ErrMissingRequiredSignedHeader

\* C10: every line getCanonicalHeaders returns is
\* Lowercase(name) ":" Trim(value) "\n".
LinesAreLowercasedAndTrimmed ==
    \A p \in Procs :
        (Done(p, "getCanonicalHeaders") /\ frame[p].err = nil) =>
            LET f == frame[p]
                values(h) == LET v == HeaderValues(requests[f.req], h)
                             IN  [j \in 1 .. Len(v) |-> Trim(v[j])]
            IN  f.ret = Concat([i \in 1 .. Len(f.signedHeaders) |->
                                   Line(Lower(f.signedHeaders[i]),
                                        values(f.signedHeaders[i]))])

=============================================================================
